---- MODULE Spec2Model ----
(***************************************************************************)
(* A model of the btcminer Stratum client: the JSON-RPC client             *)
(* (stratum/client.go, src/unnamed/part_003), the subscription             *)
(* coordinator (stratum/subscription.go, src/unnamed/part_004) and the     *)
(* mining job (src/stratum/job.go).                                        *)
(*                                                                         *)
(* Scaling.  uint32 counters (nonce, extraNonce2) are NonceBits wide, the  *)
(* hash and the target are HashLen bytes instead of 32, big.Float keeps    *)
(* FloatPrec bits instead of 53.  Everything else (byte order, hex         *)
(* strings, the order of the statements of each goroutine) is as in the    *)
(* source.  A Go string is a sequence of one-character strings.            *)
(***************************************************************************)
EXTENDS Integers, Sequences, FiniteSets, TLC

\* ------------------------------------------------------------------ bounds
\* width of the uint32 counters nonce and extraNonce2
NonceBits == 2
\* bytes of a hash and of a well-formed target (32 in the program)
HashLen == 2
\* number of mine() calls (newJob or continueJob) in one session
MaxCycles == 2
\* largest workers count (ClientParams.MinersCount) tried
MaxMiners == 2
\* the miners of the single job of SpecSweep are 1..SweepMiners
SweepMiners == 3
\* restorePrevHashByteOrder is tried on 0..RestoreWords words of 4 bytes
RestoreWords == 3
\* setDifficulty is tried on the difficulties n and n/2, n in 1..MaxDifficulty
MaxDifficulty == 3
\* computeMerkleRoot is tried on lists of 1..MaxTxs transaction hashes
MaxTxs == 5

NonceMod == 2 ^ NonceBits
HashMod == 256 ^ HashLen

\* ------------------------------------------------------- byte utilities
Min(a, b) == IF a < b THEN a ELSE b

\* reverseBytesCopy / reverseBytes (the in-place variant gives the same value)
reverseBytesCopy(bytes) ==
    [i \in 1..Len(bytes) |-> bytes[Len(bytes) + 1 - i]]

\* the result of a slice expression whose bounds are out of range: the
\* goroutine panics
SlicePanic == << -2 >>

\* a restorePrevHashByteOrder that reverses the bytes, not the words
restorePrevHashByteOrderBytewise(prevHash) == reverseBytesCopy(prevHash)

\* restored[len-i-4 : len-i] = prevHash[i : i+4] for i = 0, 4, 8, ...;
\* with a length that is no multiple of 4 the last round slices
\* restored[len-i-4:] below 0 and prevHash[:i+4] beyond its end
restorePrevHashByteOrder(prevHash) ==
    IF Len(prevHash) % 4 # 0 THEN SlicePanic
    ELSE [p \in 1..Len(prevHash) |->
            LET w == (p - 1) \div 4
                o == (p - 1) % 4
                nw == Len(prevHash) \div 4
            IN prevHash[4 * (nw - 1 - w) + o + 1]]

\* binary.LittleEndian.PutUint32 into 4 bytes
uint32ToLeBytes(i) ==
    << i % 256, (i \div 256) % 256, (i \div 65536) % 256,
       (i \div 16777216) % 256 >>

\* ------------------------------------------------------------------- hex
HexDigits ==
    << "0", "1", "2", "3", "4", "5", "6", "7",
       "8", "9", "a", "b", "c", "d", "e", "f" >>

IsHexDigit(c) == \E i \in 1..16 : HexDigits[i] = c

HexVal(c) == (CHOOSE i \in 1..16 : HexDigits[i] = c) - 1

\* the value encoding/hex.DecodeString fails with
HexError == << -1 >>

\* hex.DecodeString: an odd length or a non-hex character is an error
HexDecode(s) ==
    IF Len(s) % 2 = 1 \/ \E i \in 1..Len(s) : ~IsHexDigit(s[i])
    THEN HexError
    ELSE [i \in 1..(Len(s) \div 2) |->
            16 * HexVal(s[2 * i - 1]) + HexVal(s[2 * i])]

\* hex.EncodeToString
HexEncode(bytes) ==
    [i \in 1..(2 * Len(bytes)) |->
        IF i % 2 = 1 THEN HexDigits[(bytes[(i + 1) \div 2] \div 16) + 1]
        ELSE HexDigits[(bytes[i \div 2] % 16) + 1]]

\* ------------------------------------------------------------------ hash
\* The proof-of-work hash (sha256dHash, scryptHash) is an opaque pure
\* function of the bytes; here a rolling checksum of HashLen bytes.
RECURSIVE HashAcc(_, _, _)
HashAcc(data, i, h) ==
    IF i > Len(data) THEN h
    ELSE HashAcc(data, i + 1, (h * 21 + data[i] * 59 + 11) % HashMod)

RECURSIVE IntToBytes(_, _)
\* big-endian, exactly n bytes (the low n bytes of v)
IntToBytes(v, n) ==
    IF n = 0 THEN << >>
    ELSE Append(IntToBytes(v \div 256, n - 1), v % 256)

sha256dHash(data) == IntToBytes(HashAcc(data, 1, 7), HashLen)

\* ------------------------------------------------- difficulty -> target
\* bits of mantissa a big.Float keeps (big.NewFloat: 53)
FloatPrec == 8

\* A big.Float value is a rational [n, d] (d > 0) that fits FloatPrec bits.
Rat(n, d) == [n |-> n, d |-> d]

Abs(x) == IF x < 0 THEN -x ELSE x

RECURSIVE FloatExpOf(_, _, _)
\* the e with 2^(FloatPrec-1) <= n/d / 2^e < 2^FloatPrec   (n, d > 0)
FloatExpOf(n, d, e) ==
    LET A == IF e < 0 THEN n * 2 ^ (-e) ELSE n
        B == IF e > 0 THEN d * 2 ^ e ELSE d
    IN IF A >= B * 2 ^ FloatPrec THEN FloatExpOf(n, d, e + 1)
       ELSE IF A < B * 2 ^ (FloatPrec - 1) THEN FloatExpOf(n, d, e - 1)
       ELSE e

\* big.Float rounding (ToNearestEven) of the exact value n/d
FloatRound(n, d) ==
    IF n = 0 THEN Rat(0, 1)
    ELSE LET a == Abs(n)
             e == FloatExpOf(a, d, 0)
             A == IF e < 0 THEN a * 2 ^ (-e) ELSE a
             B == IF e > 0 THEN d * 2 ^ e ELSE d
             fl == A \div B
             r == A % B
             m == IF 2 * r > B \/ (2 * r = B /\ fl % 2 = 1)
                  THEN fl + 1 ELSE fl
             sg == IF n < 0 THEN -1 ELSE 1
         IN IF e >= 0 THEN Rat(sg * m * 2 ^ e, 1)
            ELSE Rat(sg * m, 2 ^ (-e))

FloatMul(x, y) == FloatRound(x.n * y.n, x.d * y.d)
FloatAdd(x, y) == FloatRound(x.n * y.d + y.n * x.d, x.d * y.d)
FloatSub(x, y) == FloatRound(x.n * y.d - y.n * x.d, x.d * y.d)
FloatQuo(x, y) == FloatRound(x.n * y.d, x.d * y.n)
\* (*big.Float).Int: truncation towards zero
FloatInt(x) == IF x.n < 0 THEN -((-x.n) \div x.d) ELSE x.n \div x.d

RECURSIVE bigFloatExp(_, _)
\* fexp = f; for i := 1; i < exp; i++ { fexp *= f }
bigFloatExp(f, exp) ==
    IF exp <= 1 THEN f ELSE FloatMul(bigFloatExp(f, exp - 1), f)

\* 256-64 in the program: the exponent of the difficulty-1 target
TargetExp == 8 * HashLen - 15
\* 0xffff0000 in the program: the mantissa of the difficulty-1 target
Diff1Mantissa == 255 * 8

RECURSIVE HexDigitsOf(_)
HexDigitsOf(v) ==
    IF v = 0 THEN << >>
    ELSE Append(HexDigitsOf(v \div 16), HexDigits[(v % 16) + 1])

RECURSIVE ZeroPad(_, _)
ZeroPad(s, width) == IF Len(s) >= width THEN s ELSE ZeroPad(<<"0">> \o s, width)

\* fmt.Sprintf("%064x", v): zero padded to the width, the sign first
SprintfHex(v, width) ==
    IF v < 0 THEN <<"-">> \o ZeroPad(HexDigitsOf(-v), width - 1)
    ELSE ZeroPad(IF v = 0 THEN <<"0">> ELSE HexDigitsOf(v), width)

\* the big.Int target of setDifficulty, difficulty >= 0
TargetInt(difficulty) ==
    IF difficulty.n = 0
    THEN 2 ^ (8 * HashLen) - 1
    ELSE LET f1 == bigFloatExp(Rat(2, 1), TargetExp)
             f2 == FloatMul(f1, Rat(Diff1Mantissa, 1))
             f3 == FloatAdd(f2, Rat(1, 1))
             f4 == FloatQuo(f3, difficulty)
             f5 == FloatSub(f4, Rat(1, 2))
         IN FloatInt(f5)

\* the target string setDifficulty stores
TargetString(difficulty) == SprintfHex(TargetInt(difficulty), 2 * HashLen)

\* ------------------------------------------- computeMerkleRoot (main.go)
\* a pair hash that takes the two hashes in the other order
PairHashSwapped(h1, h2) == sha256dHash(h2 \o h1)

\* concat = h1 || h2; concatHash := computeHash(concat)
PairHash(h1, h2) == sha256dHash(h1 \o h2)

\* if len(txsHashes)%2 != 0 the last hash is appended once more
PadOdd(txsHashes) ==
    IF Len(txsHashes) % 2 # 0
    THEN Append(txsHashes, txsHashes[Len(txsHashes)])
    ELSE txsHashes

RECURSIVE MerklePairs(_, _)
\* the inner loop: hash txsHashes[0] and txsHashes[1], go on with
\* txsHashes[2:] while more than 2 are left
MerklePairs(txsHashes, newTxsHashes) ==
    LET new == Append(newTxsHashes, PairHash(txsHashes[1], txsHashes[2]))
    IN IF Len(txsHashes) > 2
       THEN MerklePairs(SubSeq(txsHashes, 3, Len(txsHashes)), new)
       ELSE new

RECURSIVE MerkleReduce(_)
\* for len(txsHashes) > 1 { ... txsHashes = newTxsHashes }; txsHashes[0]
MerkleReduce(txsHashes) ==
    IF Len(txsHashes) > 1
    THEN MerkleReduce(MerklePairs(PadOdd(txsHashes), << >>))
    ELSE txsHashes[1]

\* computeMerkleRoot: every hex hash decoded (hexToBin panics on a string
\* that is no hex) and reversed, then reduced level by level; with no hash
\* at all txsHashes[0] is out of range. HexError stands for the panic.
computeMerkleRoot(txsHashesHex) ==
    LET txsHashes == [i \in 1..Len(txsHashesHex) |->
                        HexDecode(txsHashesHex[i])]
    IN IF \/ Len(txsHashesHex) = 0
          \/ \E i \in 1..Len(txsHashes) : txsHashes[i] = HexError
       THEN HexError
       ELSE MerkleReduce([i \in 1..Len(txsHashes) |->
                            reverseBytesCopy(txsHashes[i])])

\* ------------------------------------------------------------------- job
\* the zero value of jobParams (Client.latestJobParams before any notify)
ZeroJobParams ==
    [jobID |-> "", prevHash |-> << >>, coinb1 |-> << >>, coinb2 |-> << >>,
     merkleBranches |-> << >>, version |-> << >>, nbits |-> << >>,
     ntime |-> << >>, target |-> << >>, extraNonce1 |-> << >>,
     extraNonce2Length |-> 0, minersCount |-> 0]

\* what newJob returns with a non-nil error (the job is nil)
NilJob == [ID |-> "nil"]

\* newJob does not return: restorePrevHashByteOrder panicked
PanicJob == [ID |-> "panic"]

\* minersParams has no entry for the miner
NoParams == [extraNonce2 |-> -1, nonce |-> -1]

\* a newJob that takes every extraNonce2Length
extraNonce2LengthNeverRejected(n) == FALSE

\* if j.extraNonce2Length != 4: "extraNonce2Length expected to always be 4"
extraNonce2LengthRejected(n) == n # 4

\* newJob: decode the hex fields, fix the byte orders, check extraNonce2Length
newJob(p) ==
    LET prevHash == HexDecode(p.prevHash)
        coinb1 == HexDecode(p.coinb1)
        coinb2 == HexDecode(p.coinb2)
        branches == [i \in 1..Len(p.merkleBranches) |->
                        HexDecode(p.merkleBranches[i])]
        version == HexDecode(p.version)
        nbits == HexDecode(p.nbits)
        ntime == HexDecode(p.ntime)
        target == HexDecode(p.target)
        extraNonce1 == HexDecode(p.extraNonce1)
    IN IF /\ prevHash # HexError
          /\ restorePrevHashByteOrder(prevHash) = SlicePanic
       THEN PanicJob
       ELSE
       IF \/ HexError \in {prevHash, coinb1, coinb2, version, nbits, ntime,
                           target, extraNonce1}
          \/ \E i \in 1..Len(branches) : branches[i] = HexError
          \/ extraNonce2LengthRejected(p.extraNonce2Length)
       THEN NilJob
       ELSE [ID |-> p.jobID,
             prevHash |-> reverseBytesCopy(restorePrevHashByteOrder(prevHash)),
             coinb1 |-> coinb1,
             coinb2 |-> coinb2,
             merkleBranches |-> branches,
             version |-> reverseBytesCopy(version),
             nbits |-> reverseBytesCopy(nbits),
             ntime |-> reverseBytesCopy(ntime),
             target |-> target,
             extraNonce1 |-> extraNonce1,
             extraNonce2Length |-> p.extraNonce2Length,
             minersCount |-> p.minersCount,
             stopMining |-> FALSE,
             minersWg |-> 0,
             minersParams |-> [k \in 0..(p.minersCount - 1) |-> NoParams],
             shares |-> 0]

RECURSIVE MerkleFold(_, _, _)
MerkleFold(acc, branches, i) ==
    IF i > Len(branches) THEN acc
    ELSE MerkleFold(sha256dHash(acc \o branches[i]), branches, i + 1)

\* merkleRoot: hash of coinb1 || extraNonce1 || extraNonce2 || coinb2, then
\* folded with every merkle branch
merkleRoot(j, extraNonce2) ==
    MerkleFold(sha256dHash(j.coinb1 \o j.extraNonce1 \o extraNonce2 \o j.coinb2),
               j.merkleBranches, 1)

\* headerPrefix: version || prevHash || merkleRoot || ntime || nbits
headerPrefix(j, extraNonce2) ==
    j.version \o j.prevHash \o merkleRoot(j, extraNonce2) \o j.ntime \o j.nbits

\* the header a miner hashes at (extraNonce2, nonce)
Header(j, extraNonce2, nonce) ==
    headerPrefix(j, uint32ToLeBytes(extraNonce2)) \o uint32ToLeBytes(nonce)

\* a reachTarget that accepts every hash
reachTargetAlways(blockHash, target) ==
    IF Len(target) = 0 THEN "panic" ELSE "true"

RECURSIVE ReachScan(_, _, _)
\* the loop of reachTarget from index i: "panic" is the index out of range
\* of j.target[i]
ReachScan(blockHash, target, i) ==
    IF i > Len(blockHash) THEN "false"
    ELSE IF i > Len(target) THEN "panic"
    ELSE IF blockHash[i] < target[i] THEN "true"
    ELSE IF blockHash[i] > target[i] THEN "false"
    ELSE ReachScan(blockHash, target, i + 1)

\* a reachTarget that takes a hash equal to the target too
reachTargetOrEqual(blockHash, target) ==
    IF blockHash = target THEN "true" ELSE ReachScan(blockHash, target, 1)

reachTarget(blockHash, target) == ReachScan(blockHash, target, 1)

\* a newShare that hands out the ntime as the job stores it
newShareStoredNtime(jobID, extraNonce2, ntime, nonce) ==
    [JobID |-> jobID,
     ExtraNonce2 |-> HexEncode(extraNonce2),
     Nonce |-> HexEncode(nonce),
     Ntime |-> HexEncode(ntime)]

\* the slice handed to reverseBytesCopy, after the call: the bytes are
\* copied to bytes2 and reverseBytes works on the copy
reverseBytesCopyArg(bytes) == bytes

\* newShare: hex of extraNonce2, of the ntime reversed back, of the nonce
newShare(jobID, extraNonce2, ntime, nonce) ==
    [JobID |-> jobID,
     ExtraNonce2 |-> HexEncode(extraNonce2),
     Nonce |-> HexEncode(nonce),
     Ntime |-> HexEncode(reverseBytesCopy(ntime))]

NoShare == [JobID |-> "none"]

\* ------------------------------------------------------ what the pool sends
\* mining.notify params (params[0..7]); every field is a JSON string
NotifyA ==
    [jobID |-> "a", prevHash |-> <<"0","1","0","2","0","3","0","4">>,
     coinb1 |-> <<"0","a">>, coinb2 |-> <<"0","b">>,
     merkleBranches |-> << <<"0","c">> >>,
     version |-> <<"0","0","0","0","0","0","0","2">>,
     nbits |-> <<"1","d","0","0","f","f","f","f">>,
     ntime |-> <<"5","b","1","e","0","a","0","1">>]

NotifyB ==
    [jobID |-> "b", prevHash |-> <<"1","1","1","2","1","3","1","4">>,
     coinb1 |-> <<"1","a">>, coinb2 |-> <<"1","b">>,
     merkleBranches |-> << >>,
     version |-> <<"0","0","0","0","0","0","0","2">>,
     nbits |-> <<"1","d","0","0","f","f","f","f">>,
     ntime |-> <<"5","b","1","e","0","a","0","2">>]

\* coinb1 is no hex string
NotifyBad ==
    [jobID |-> "c", prevHash |-> <<"0","1","0","2","0","3","0","4">>,
     coinb1 |-> <<"z","z">>, coinb2 |-> <<"0","b">>,
     merkleBranches |-> << >>,
     version |-> <<"0","0","0","0","0","0","0","2">>,
     nbits |-> <<"1","d","0","0","f","f","f","f">>,
     ntime |-> <<"5","b","1","e","0","a","0","3">>]

NotifyJobs == {NotifyA, NotifyB, NotifyBad}

\* mining.set_difficulty params[0]
Difficulties == {Rat(-1, 1), Rat(0, 1), Rat(1, 1)}

\* response frames: result true / false, an error with code 21 or 20, a
\* mining.subscribe result [[[name, subID]], extraNonce1, extraNonce2Length]
Responses == {"true", "false", "err21", "err20", "sub4", "sub8"}

errCodeJobNotFound == 21

ResponseError(res) ==
    IF res = "err21" THEN 21 ELSE IF res = "err20" THEN 20 ELSE 0

SubscribeExtraNonce1 == <<"a","b">>

\* Write calls a request line takes at most (its length in write units)
LineUnits == 2

\* ------------------------------------------------------------------ state
VARIABLES
    minersCount,      \* Client.minersCount (ClientParams.MinersCount)
    connection,       \* Client.connection # nil
    messageID,        \* Client.messageID
    requests,         \* Client.requests: pending id -> request
    latestJobParams,  \* Client.latestJobParams
    call,             \* the call()s between Lock and Unlock of Client.mutex
    wire,             \* the units written to the socket, in order
    servePc,          \* where Serve() is
    reader,           \* where handleIncomingJSONLines is
    subscription,     \* Client.subscription
    jobs,             \* every job newJob built, in order of creation
    cycles,           \* per mine() call: its job, its miners, its share drain
    crashed,          \* a goroutine panicked: the process is gone
    hashed,           \* history: <<job, miner, extraNonce2, nonce>> hashed
    twice,            \* history: those hashed a second time
    dispatched,       \* history: id -> responses handed to a method's case
    dropped,          \* history: parity of the lines logged as not unmarshalled
    authorized,       \* history: the response the mining.authorize case got
    pure,             \* a function of util.go / job.go, its input, its result
    neither           \* history: the last line logged as neither request
                      \* nor response, and the parity of their number

vars ==
    << minersCount, connection, messageID, requests, latestJobParams, call,
       wire, servePc, reader, subscription, jobs, cycles, crashed, hashed,
       twice, dispatched, dropped, authorized, pure, neither >>

clientVars == << connection, messageID, requests, call, wire, servePc >>
histVars ==
    << hashed, twice, dispatched, dropped, authorized, pure, neither >>

Serve == [t |-> "serve", c |-> 0]
Reader == [t |-> "reader", c |-> 0]
Drain(c) == [t |-> "drain", c |-> c]

NoRequests == [i \in {} |-> 0]

\* NewClient, with ClientParams.MinersCount = 1 (SpecMiners and SpecSweep
\* run the session with more miners)
\* no function of the pure ones is under test
NoPure == [f |-> "none"]

\* no line was logged as neither request nor response
NoNeither == [Method |-> "none", odd |-> FALSE]

Init ==
    /\ minersCount = 1
    /\ connection = FALSE
    /\ messageID = 0
    /\ requests = NoRequests
    /\ latestJobParams = ZeroJobParams
    /\ call = {}
    /\ wire = << >>
    /\ servePc = "dial"
    /\ reader = [pc |-> "off", jp |-> ZeroJobParams, by |-> ""]
    /\ subscription =
         [id |-> "", extraNonce1 |-> << >>, extraNonce2Length |-> 0,
          target |-> << >>, difficulty |-> Rat(0, 1), job |-> 0]
    /\ jobs = << >>
    /\ cycles = << >>
    /\ crashed = FALSE
    /\ hashed = {}
    /\ twice = {}
    /\ dispatched = NoRequests
    /\ dropped = FALSE
    /\ authorized = "none"
    /\ pure = NoPure
    /\ neither = NoNeither

\* ------------------------------------------------------------ Client.call
\* the goroutines that call(): Serve (mining.authorize), the reader
\* (mining.subscribe), the share drains (mining.submit)
Callers == {Serve, Reader} \cup {Drain(c) : c \in 1..Len(cycles)}

WantsCall(who) ==
    \/ who = Serve /\ servePc = "authorize"
    \/ who = Reader /\ reader.pc = "subscribe"
    \/ who.t = "drain" /\ cycles[who.c].drain.pc = "call"

CallRequest(who) ==
    [ID |-> messageID,
     Method |-> IF who = Serve THEN "mining.authorize"
                ELSE IF who = Reader THEN "mining.subscribe"
                ELSE "mining.submit",
     Params |-> IF who.t = "drain" THEN cycles[who.c].drain.share
                ELSE NoShare]

\* the call() of goroutine who that is between Lock and Unlock, if any
InCall(who) == {r \in call : r.who = who}

\* a Lock that never waits
MutexNeverHeld == TRUE

\* c.mutex.Lock(): no call() is between Lock and Unlock
MutexFree == call = {}

\* the caller goes on after call() returned
AfterCall(who, failed) ==
    /\ servePc' = IF who = Serve
                  THEN (IF failed THEN "returned" ELSE "sleep")
                  ELSE servePc
    /\ reader' = IF who = Reader THEN [reader EXCEPT !.pc = "read"]
                 ELSE reader
    /\ cycles' = IF who.t = "drain"
                 THEN [cycles EXCEPT ![who.c].drain.pc = "done"]
                 ELSE cycles

\* a return that advances the id all the same
AfterWriteErrorAdvances(id) == id + 1

\* call() returns err from the write loop: c.messageID is as it was
AfterWriteError(id) == id

\* call(): under the mutex, take the id, write the line (one Write call per
\* step: n units written, with or without an error); when the loop has
\* ended, in a step of its own, store the request under messageID and
\* advance messageID
Call(who) ==
    /\ ~crashed
    /\ WantsCall(who)
    /\ InCall(who) = {} => MutexFree
    /\ LET begun == InCall(who) # {}
           mine == CHOOSE r \in InCall(who) : TRUE
           req == IF begun THEN mine.req ELSE CallRequest(who)
           written == IF begun THEN mine.written ELSE 0
           others == call \ InCall(who)
       IN IF ~begun /\ ~connection
          THEN /\ AfterCall(who, TRUE)
               /\ UNCHANGED << call, wire, requests, messageID >>
          ELSE IF written = LineUnits
          THEN /\ requests' =
                    [i \in DOMAIN requests \cup {messageID} |->
                        IF i = messageID THEN req ELSE requests[i]]
               /\ messageID' = messageID + 1
               /\ call' = others
               /\ AfterCall(who, FALSE)
               /\ UNCHANGED wire
          ELSE \E n \in 0..(LineUnits - written), failed \in BOOLEAN :
                 /\ failed => n < LineUnits - written
                 /\ ~failed => n >= 1
                 /\ wire' = wire \o
                      [i \in 1..n |-> [ID |-> req.ID, Method |-> req.Method,
                                       unit |-> written + i, by |-> who]]
                 /\ IF failed
                    THEN /\ call' = others
                         /\ AfterCall(who, TRUE)
                         /\ messageID' = AfterWriteError(messageID)
                         /\ UNCHANGED requests
                    ELSE /\ call' = others \cup
                                {[who |-> who, req |-> req,
                                  written |-> written + n]}
                         /\ UNCHANGED << requests, messageID, servePc,
                                         reader, cycles >>
    /\ UNCHANGED << minersCount, connection, latestJobParams, subscription,
                    jobs, crashed >>
    /\ UNCHANGED histVars

\* ------------------------------------------------------------ Client.Serve
\* net.Dial, c.connection = conn, go c.handleIncomingJSONLines()
ServeDial ==
    /\ ~crashed
    /\ servePc = "dial"
    /\ \/ /\ connection' = TRUE
          /\ servePc' = "authorize"
          /\ reader' = [reader EXCEPT !.pc = "read"]
       \/ /\ servePc' = "returned"
          /\ UNCHANGED << connection, reader >>
    /\ UNCHANGED << minersCount, messageID, requests, latestJobParams, call,
                    wire, subscription, jobs, cycles, crashed >>
    /\ UNCHANGED histVars

\* ------------------------------------------------------------ subscription
\* subscription.noJob
noJob == subscription.job = 0

\* job.stop has stored stopMining = true; minersWg.Wait() returns
StopReturns(j) == jobs[j].minersWg = 0

\* job.mine on the job value j as cycle c: a fresh shares channel (named by
\* the cycle), stopMining = false; the cycle's miners are not started yet
mine(j, c) == [j EXCEPT !.shares = c, !.stopMining = FALSE]

\* the goroutines one mine() call and its caller start: go j.miner(i, n)
\* for i < minersCount, and the drain that receives one share and submits it
NewCycle(jobIndex, n) ==
    [job |-> jobIndex,
     miners |-> [k \in 0..(n - 1) |->
                   [pc |-> "start", params |-> NoParams, extraNonce2 |-> 0,
                    nonce |-> 0, ch |-> 0]],
     drain |-> [pc |-> "recv", share |-> NoShare]]

\* subscription.newJob up to job.stop's Wait: lock, stopMining.Store(true)
\* of the current job
NewJobBegin(p, by) ==
    /\ jobs' = IF noJob THEN jobs
               ELSE [jobs EXCEPT ![subscription.job].stopMining = TRUE]
    /\ reader' = [pc |-> "newJob", jp |-> p, by |-> by]

\* a fill that leaves the target the params came with
FillParamsKeepsTarget(p, s) ==
    [p EXCEPT !.extraNonce1 = s.extraNonce1,
              !.extraNonce2Length = s.extraNonce2Length]

\* subscription.newJob: p.target = s.target, p.extraNonce1 = s.extraNonce1,
\* p.extraNonce2Length = s.extraNonce2Length
FillParams(p, s) ==
    [p EXCEPT !.target = s.target, !.extraNonce1 = s.extraNonce1,
              !.extraNonce2Length = s.extraNonce2Length]

\* subscription.newJob from Wait's return: fill the params from the
\* subscription, build the job, mine(); the caller starts the share drain
SubNewJob ==
    /\ ~crashed
    /\ reader.pc = "newJob"
    /\ IF noJob THEN TRUE ELSE StopReturns(subscription.job)
    /\ LET p == FillParams(reader.jp, subscription)
           j == newJob(p)
           c == Len(cycles) + 1
       IN IF j = PanicJob
          THEN /\ crashed' = TRUE
               /\ UNCHANGED << subscription, jobs, cycles >>
          ELSE IF j = NilJob
          THEN /\ subscription' = [subscription EXCEPT !.job = 0]
               /\ UNCHANGED << jobs, cycles, crashed >>
          ELSE /\ jobs' = Append(jobs, mine(j, c))
               /\ subscription' = [subscription EXCEPT !.job = Len(jobs) + 1]
               /\ cycles' = Append(cycles, NewCycle(Len(jobs) + 1, j.minersCount))
               /\ UNCHANGED crashed
    /\ reader' = [reader EXCEPT !.pc = "read"]
    /\ UNCHANGED << minersCount, latestJobParams >>
    /\ UNCHANGED clientVars
    /\ UNCHANGED histVars

\* subscription.continueJob: s.job.mine() (a nil s.job panics), and the
\* caller's share drain
ContinueJob ==
    IF noJob
    THEN /\ crashed' = TRUE
         /\ UNCHANGED << jobs, cycles >>
    ELSE /\ jobs' = [jobs EXCEPT ![subscription.job] =
                        mine(jobs[subscription.job], Len(cycles) + 1)]
         /\ cycles' = Append(cycles,
                NewCycle(subscription.job, jobs[subscription.job].minersCount))
         /\ UNCHANGED crashed

\* a setDifficulty that stores the difficulty before it looks at its sign
setDifficultyStoresFirst(difficulty) ==
    IF difficulty.n < 0
    THEN [subscription EXCEPT !.difficulty = difficulty]
    ELSE [subscription EXCEPT !.difficulty = difficulty,
                              !.target = TargetString(difficulty)]

\* setDifficulty returns errors.New("Difficulty must be non-negative")
setDifficultyError(difficulty) == difficulty.n < 0

\* subscription.setDifficulty
setDifficulty(difficulty) ==
    IF setDifficultyError(difficulty)
    THEN subscription
    ELSE [subscription EXCEPT !.difficulty = difficulty,
                              !.target = TargetString(difficulty)]

\* ------------------------------------------- handleIncomingJSONLines
\* ReadLine returns an error: the reader goroutine returns it
ReadError ==
    /\ ~crashed
    /\ reader.pc = "read"
    /\ reader' = [reader EXCEPT !.pc = "returned"]
    /\ UNCHANGED << minersCount, latestJobParams, subscription, jobs, cycles,
                    crashed >>
    /\ UNCHANGED clientVars
    /\ UNCHANGED histVars

\* a mining.set_difficulty request line
ReadSetDifficulty(difficulty) ==
    /\ ~crashed
    /\ reader.pc = "read"
    /\ subscription' = setDifficulty(difficulty)
    /\ UNCHANGED << minersCount, latestJobParams, reader, jobs, cycles,
                    crashed >>
    /\ UNCHANGED clientVars
    /\ UNCHANGED histVars

\* the jobParams handleRPCCall builds from the params of a mining.notify
NotifyJobParams(params, n) ==
    [ZeroJobParams EXCEPT
        !.jobID = params.jobID, !.prevHash = params.prevHash,
        !.coinb1 = params.coinb1, !.coinb2 = params.coinb2,
        !.merkleBranches = params.merkleBranches,
        !.version = params.version, !.nbits = params.nbits,
        !.ntime = params.ntime, !.minersCount = n]

\* a notify that looks at clean_jobs alone
StartsNewJobIfClean(cleanJobs) == cleanJobs

\* if cleanJobs || c.subscription.noJob()
StartsNewJob(cleanJobs) == cleanJobs \/ noJob

\* the mining.notify case of handleRPCCall on 9 well-typed params
HandleNotify(params, cleanJobs) ==
    LET jp == NotifyJobParams(params, minersCount)
    IN /\ latestJobParams' = jp
       /\ IF StartsNewJob(cleanJobs)
          THEN /\ Len(cycles) < MaxCycles
               /\ NewJobBegin(jp, "notify")
          ELSE UNCHANGED << jobs, reader >>

\* a mining.notify request line with 9 well-typed params
ReadNotify(params, cleanJobs) ==
    /\ ~crashed
    /\ reader.pc = "read"
    /\ HandleNotify(params, cleanJobs)
    /\ UNCHANGED << minersCount, subscription, cycles, crashed >>
    /\ UNCHANGED clientVars
    /\ UNCHANGED histVars

\* lines that unmarshal neither into a request nor into a response: one
\* that is no JSON at all (req stays the zero request), and JSON objects
\* whose "id" is a string, which json.Unmarshal refuses for the uint ID
\* of both structs after it has filled in Method and Params of req
NeitherFrames ==
    {[Method |-> "", difficulty |-> Rat(0, 1), params |-> NotifyA,
      cleanJobs |-> FALSE]}
    \cup {[Method |-> "mining.set_difficulty", difficulty |-> d,
           params |-> NotifyA, cleanJobs |-> FALSE] : d \in Difficulties}
    \cup {[Method |-> "mining.notify", difficulty |-> Rat(0, 1),
           params |-> p, cleanJobs |-> TRUE] : p \in {NotifyA, NotifyB}}

\* such a line: unmarshalJSONLine returns req, res and the error "failed to
\* unmarshal JSON line to neither request nor response"; the reader logs
\* the error and goes on to handleRPCCall(req, res) with that req
ReadNeither(frame) ==
    /\ ~crashed
    /\ reader.pc = "read"
    /\ neither' = [Method |-> frame.Method, odd |-> ~neither.odd]
    /\ IF frame.Method = "mining.set_difficulty"
       THEN /\ subscription' = setDifficulty(frame.difficulty)
            /\ UNCHANGED << latestJobParams, jobs, reader >>
       ELSE IF frame.Method = "mining.notify"
       THEN /\ HandleNotify(frame.params, frame.cleanJobs)
            /\ UNCHANGED subscription
       ELSE UNCHANGED << subscription, latestJobParams, jobs, reader >>
    /\ UNCHANGED << minersCount, cycles, crashed >>
    /\ UNCHANGED clientVars
    /\ UNCHANGED << hashed, twice, dispatched, dropped, authorized, pure >>

\* an authorize case that takes every result for true
AuthorizeResultAny(res) == TRUE

\* res.Result.(bool) of a mining.authorize response
AuthorizeResult(res) == res = "true"

\* a removal that leaves the entry
removeRequestKeeps(reqs, id) == reqs

\* removeRequest: delete(c.requests, messageID)
removeRequest(reqs, id) == [i \in DOMAIN reqs \ {id} |-> reqs[i]]

\* a read lock that never waits
RLockNeverWaits == TRUE

\* c.mutex.RLock() of request(): waits while a call() holds the mutex
RLock == MutexFree

\* a response line {id, result, error}: unmarshalJSONLine looks the request
\* up and removes it, handleRPCCall switches on its method
ReadResponse(id, res) ==
    /\ ~crashed
    /\ reader.pc = "read"
    /\ RLock
    /\ IF id \notin DOMAIN requests
       THEN /\ dropped' = ~dropped
            /\ UNCHANGED << requests, reader, subscription, jobs, cycles,
                            crashed, dispatched, authorized, pure, neither >>
       ELSE
         /\ requests' = removeRequest(requests, id)
         /\ dispatched' = [i \in DOMAIN dispatched \cup {id} |->
                             IF i = id
                             THEN (IF i \in DOMAIN dispatched
                                   THEN dispatched[i] + 1 ELSE 1)
                             ELSE dispatched[i]]
         /\ UNCHANGED dropped
         /\ authorized' = IF requests[id].Method = "mining.authorize"
                          THEN res ELSE authorized
         /\ CASE requests[id].Method = "mining.authorize" ->
                   /\ IF ResponseError(res) # 0
                      THEN UNCHANGED << reader, crashed >>
                      ELSE IF res \notin {"true", "false"}
                      THEN \* res.Result.(bool) panics
                           /\ crashed' = TRUE
                           /\ UNCHANGED reader
                      ELSE IF ~AuthorizeResult(res)
                      THEN UNCHANGED << reader, crashed >>
                      ELSE /\ reader' = [reader EXCEPT !.pc = "subscribe"]
                           /\ UNCHANGED crashed
                   /\ UNCHANGED << subscription, jobs, cycles >>
              [] requests[id].Method = "mining.subscribe" ->
                   /\ subscription' =
                        IF res \in {"sub4", "sub8"}
                        THEN [subscription EXCEPT
                                !.id = "sub",
                                !.extraNonce1 = SubscribeExtraNonce1,
                                !.extraNonce2Length =
                                    IF res = "sub4" THEN 4 ELSE 8]
                        ELSE subscription
                   /\ UNCHANGED << reader, jobs, cycles, crashed >>
              [] OTHER -> \* mining.submit
                   /\ IF ResponseError(res) = 0
                      THEN UNCHANGED << reader, jobs, cycles, crashed >>
                      ELSE /\ Len(cycles) < MaxCycles
                           /\ IF ResponseError(res) = errCodeJobNotFound
                              THEN /\ NewJobBegin(latestJobParams, "submit")
                                   /\ UNCHANGED << cycles, crashed >>
                              ELSE /\ ContinueJob
                                   /\ UNCHANGED reader
                   /\ UNCHANGED subscription
    /\ UNCHANGED << minersCount, connection, messageID, latestJobParams,
                    call, wire, servePc, hashed, twice, pure, neither >>

\* --------------------------------------------------------------- job.miner
JobOf(c) == jobs[cycles[c].job]
Miner(c, k) == cycles[c].miners[k]
Miners(c) == DOMAIN cycles[c].miners

\* nonce += uint32(nonceStride), on a uint32
NextNonce(nonce, nonceStride) == (nonce + nonceStride) % NonceMod

\* extraNonce2++, on a uint32
NextExtraNonce2(extraNonce2) == (extraNonce2 + 1) % NonceMod

\* the loop condition nonce <= 0xffffffff of the inner loop
InnerLoopGoesOn(nonce) == nonce <= NonceMod - 1

\* the position a miner starts from: minersParams.Load(minerID), or
\* (0, nonceStart)
StartParams(j, nonceStart) ==
    IF j.minersParams[nonceStart] # NoParams
    THEN j.minersParams[nonceStart]
    ELSE [extraNonce2 |-> 0, nonce |-> nonceStart]

\* go j.miner(i, n) runs: load the params, minersWg.Add(1), start the
\* goroutine of the loops
MinerStart(c, k) ==
    /\ ~crashed
    /\ Miner(c, k).pc = "start"
    /\ LET params == StartParams(JobOf(c), k)
       IN cycles' = [cycles EXCEPT ![c].miners[k] =
                        [pc |-> "check", params |-> params,
                         extraNonce2 |-> params.extraNonce2,
                         nonce |-> params.nonce, ch |-> 0]]
    /\ jobs' = [jobs EXCEPT ![cycles[c].job].minersWg = @ + 1]
    /\ UNCHANGED << minersCount, latestJobParams, reader, subscription,
                    crashed >>
    /\ UNCHANGED clientVars
    /\ UNCHANGED histVars

\* if j.stopMining.Load().(bool)
MinerCheckStop(c, k) ==
    /\ ~crashed
    /\ Miner(c, k).pc = "check"
    /\ cycles' = [cycles EXCEPT ![c].miners[k].pc =
                     IF JobOf(c).stopMining THEN "stopped" ELSE "hash"]
    /\ UNCHANGED << minersCount, latestJobParams, reader, subscription, jobs,
                    crashed >>
    /\ UNCHANGED clientVars
    /\ UNCHANGED histVars

\* the stop was seen: minersParams.Store(minerID, {extraNonce2, nonce}),
\* return (minersWg.Done)
MinerStoreStopped(c, k) ==
    /\ ~crashed
    /\ Miner(c, k).pc = "stopped"
    /\ jobs' = [jobs EXCEPT
                  ![cycles[c].job].minersParams[k] =
                      [extraNonce2 |-> Miner(c, k).extraNonce2,
                       nonce |-> Miner(c, k).nonce],
                  ![cycles[c].job].minersWg = @ - 1]
    /\ cycles' = [cycles EXCEPT ![c].miners[k].pc = "done"]
    /\ UNCHANGED << minersCount, latestJobParams, reader, subscription,
                    crashed >>
    /\ UNCHANGED clientVars
    /\ UNCHANGED histVars

\* hash the header of (extraNonce2, nonce); on reachTarget store
\* stopMining = true, otherwise step the nonce and go round the loop
MinerHash(c, k) ==
    /\ ~crashed
    /\ Miner(c, k).pc = "hash"
    /\ LET j == JobOf(c)
           m == Miner(c, k)
           headerHash == sha256dHash(Header(j, m.extraNonce2, m.nonce))
           reached == reachTarget(headerHash, j.target)
           pos == << cycles[c].job, k, m.extraNonce2, m.nonce >>
           next == NextNonce(m.nonce, j.minersCount)
       IN /\ hashed' = hashed \cup {pos}
          /\ twice' = IF pos \in hashed THEN twice \cup {pos} ELSE twice
          /\ IF reached = "panic"
             THEN /\ crashed' = TRUE
                  /\ UNCHANGED << jobs, cycles >>
             ELSE IF reached = "true"
             THEN /\ jobs' = [jobs EXCEPT ![cycles[c].job].stopMining = TRUE]
                  /\ cycles' = [cycles EXCEPT ![c].miners[k].pc = "found"]
                  /\ UNCHANGED crashed
             ELSE /\ cycles' = [cycles EXCEPT
                       ![c].miners[k].pc = "check",
                       ![c].miners[k].nonce =
                           IF InnerLoopGoesOn(next) THEN next
                           ELSE m.params.nonce,
                       ![c].miners[k].extraNonce2 =
                           IF InnerLoopGoesOn(next) THEN m.extraNonce2
                           ELSE NextExtraNonce2(m.extraNonce2)]
                  /\ UNCHANGED << jobs, crashed >>
    /\ UNCHANGED << minersCount, latestJobParams, reader, subscription,
                    dispatched, dropped, authorized, pure, neither >>
    /\ UNCHANGED clientVars

\* the send statement j.shares <- ... reads the field j.shares
MinerLoadShares(c, k) ==
    /\ ~crashed
    /\ Miner(c, k).pc = "found"
    /\ cycles' = [cycles EXCEPT ![c].miners[k].pc = "send",
                                ![c].miners[k].ch = JobOf(c).shares]
    /\ UNCHANGED << minersCount, latestJobParams, reader, subscription, jobs,
                    crashed >>
    /\ UNCHANGED clientVars
    /\ UNCHANGED histVars

\* the unbuffered send meets the receive s := <-shares of the drain of
\* that channel
MinerSend(c, k) ==
    /\ ~crashed
    /\ Miner(c, k).pc = "send"
    /\ cycles[Miner(c, k).ch].drain.pc = "recv"
    /\ LET j == JobOf(c)
           m == Miner(c, k)
           share == newShare(j.ID, uint32ToLeBytes(m.extraNonce2), j.ntime,
                             uint32ToLeBytes(m.nonce))
           sent == [cycles EXCEPT ![c].miners[k].pc = "store"]
       IN /\ cycles' = [sent EXCEPT ![m.ch].drain =
                           [pc |-> "call", share |-> share]]
          /\ jobs' = [jobs EXCEPT ![cycles[c].job].ntime =
                                     reverseBytesCopyArg(j.ntime)]
    /\ UNCHANGED << minersCount, latestJobParams, reader, subscription,
                    crashed >>
    /\ UNCHANGED clientVars
    /\ UNCHANGED histVars

\* after the send: nextNonce := nonce + stride; if it wrapped extraNonce2++;
\* minersParams.Store; return (minersWg.Done)
MinerStoreFound(c, k) ==
    /\ ~crashed
    /\ Miner(c, k).pc = "store"
    /\ LET m == Miner(c, k)
           nextNonce == NextNonce(m.nonce, JobOf(c).minersCount)
           extraNonce2 == IF nextNonce < m.nonce
                          THEN NextExtraNonce2(m.extraNonce2)
                          ELSE m.extraNonce2
       IN jobs' = [jobs EXCEPT
                     ![cycles[c].job].minersParams[k] =
                         [extraNonce2 |-> extraNonce2, nonce |-> nextNonce],
                     ![cycles[c].job].minersWg = @ - 1]
    /\ cycles' = [cycles EXCEPT ![c].miners[k].pc = "done"]
    /\ UNCHANGED << minersCount, latestJobParams, reader, subscription,
                    crashed >>
    /\ UNCHANGED clientVars
    /\ UNCHANGED histVars

\* ------------------------------------------------------------ the program
Next ==
    \/ ServeDial
    \/ \E who \in Callers : Call(who)
    \/ ReadError
    \/ \E d \in Difficulties : ReadSetDifficulty(d)
    \/ \E p \in NotifyJobs, cleanJobs \in BOOLEAN : ReadNotify(p, cleanJobs)
    \/ \E id \in 0..messageID, res \in Responses : ReadResponse(id, res)
    \/ SubNewJob
    \/ \E c \in 1..Len(cycles) : \E k \in Miners(c) :
         \/ MinerStart(c, k)
         \/ MinerCheckStop(c, k)
         \/ MinerStoreStopped(c, k)
         \/ MinerHash(c, k)
         \/ MinerLoadShares(c, k)
         \/ MinerSend(c, k)
         \/ MinerStoreFound(c, k)

Spec == Init /\ [][Next]_vars

\* ------------------------------------------- several miners, a simple pool
\* The session after mining.authorize, mining.subscribe (extraNonce2Length
\* 4), one mining.set_difficulty and the first mining.notify: its job has
\* been built and mine() has returned.
HandshakeWire ==
    [i \in 1..(2 * LineUnits) |->
        [ID |-> (i - 1) \div LineUnits,
         Method |-> IF i <= LineUnits THEN "mining.authorize"
                    ELSE "mining.subscribe",
         unit |-> ((i - 1) % LineUnits) + 1,
         by |-> IF i <= LineUnits THEN Serve ELSE Reader]]

MinersInit(counts) ==
    /\ minersCount \in counts
    /\ connection = TRUE
    /\ messageID = 2
    /\ requests = NoRequests
    /\ latestJobParams = NotifyJobParams(NotifyA, minersCount)
    /\ call = {}
    /\ wire = HandshakeWire
    /\ servePc = "sleep"
    /\ reader = [pc |-> "read", jp |-> latestJobParams, by |-> "notify"]
    /\ \E d \in Difficulties :
         /\ d.n >= 0
         /\ subscription =
              [id |-> "sub", extraNonce1 |-> SubscribeExtraNonce1,
               extraNonce2Length |-> 4, target |-> TargetString(d),
               difficulty |-> d, job |-> 1]
    /\ jobs = << mine(newJob(FillParams(latestJobParams, subscription)), 1) >>
    /\ cycles = << NewCycle(1, minersCount) >>
    /\ crashed = FALSE
    /\ hashed = {}
    /\ twice = {}
    /\ dispatched = [i \in 0..1 |-> 1]
    /\ dropped = FALSE
    /\ authorized = "true"
    /\ pure = NoPure
    /\ neither = NoNeither

InitMiners == MinersInit(1..MaxMiners)

\* the pool answers mining.submit and replaces the job (clean_jobs)
NextMiners ==
    \/ \E c \in 1..Len(cycles) : Call(Drain(c))
    \/ \E id \in 0..messageID, res \in {"true", "err20", "err21"} :
         ReadResponse(id, res)
    \/ ReadNotify(NotifyA, TRUE)
    \/ SubNewJob
    \/ \E c \in 1..Len(cycles) : \E k \in Miners(c) :
         \/ MinerStart(c, k)
         \/ MinerCheckStop(c, k)
         \/ MinerStoreStopped(c, k)
         \/ MinerHash(c, k)
         \/ MinerLoadShares(c, k)
         \/ MinerSend(c, k)
         \/ MinerStoreFound(c, k)

SpecMiners == InitMiners /\ [][NextMiners]_vars

\* ------------------------------------------------ one job, a silent pool
\* The same session with up to SweepMiners miners; the pool sends nothing
\* more: the miners of the first job sweep, the drain submits.
InitSweep == MinersInit(1..SweepMiners)

NextSweep ==
    \/ Call(Drain(1))
    \/ \E k \in Miners(1) :
         \/ MinerStart(1, k)
         \/ MinerCheckStop(1, k)
         \/ MinerStoreStopped(1, k)
         \/ MinerHash(1, k)
         \/ MinerLoadShares(1, k)
         \/ MinerSend(1, k)
         \/ MinerStoreFound(1, k)

SpecSweep == InitSweep /\ [][NextSweep]_vars

\* ------------------------------------ the reader and ill-formed lines
\* the session without the miners' steps, the pool sending also lines that
\* are neither request nor response
NextFrames ==
    \/ ServeDial
    \/ \E who \in Callers : Call(who)
    \/ ReadError
    \/ \E d \in Difficulties : ReadSetDifficulty(d)
    \/ \E p \in NotifyJobs, cleanJobs \in BOOLEAN : ReadNotify(p, cleanJobs)
    \/ \E id \in 0..messageID, res \in Responses : ReadResponse(id, res)
    \/ SubNewJob
    \/ \E frame \in NeitherFrames : ReadNeither(frame)

SpecFrames == Init /\ [][NextFrames]_vars

\* ------------------------------------------- the pure functions on inputs
\* the byte values the hashes and targets are drawn from
ByteSample == {0, 1, 255}

\* the byte strings of n bytes over a set of byte values
ByteStrings(n, values) == [1..n -> values]

\* job.reachTarget on a block hash and a target of the hash's length
ReachTargetInputs ==
    {<< h, t >> : h \in ByteStrings(HashLen, ByteSample),
                  t \in ByteStrings(HashLen, ByteSample)}

\* restorePrevHashByteOrder on prevHashes of up to RestoreWords 4-byte words
RestoreInputs ==
    UNION {ByteStrings(4 * nw, {0, 255}) : nw \in 0..RestoreWords}

\* the fields of a subscribed session that subscription.newJob fills in
PureSubscription ==
    [id |-> "sub", extraNonce1 |-> SubscribeExtraNonce1,
     extraNonce2Length |-> 4, target |-> TargetString(Rat(1, 1)),
     difficulty |-> Rat(1, 1), job |-> 0]

\* newJob on the params of a mining.notify whose version, prevHash, ntime
\* and nbits are hex strings of the usual and of other lengths, or no hex
HeaderInputs ==
    {FillParams([NotifyJobParams(NotifyA, 1) EXCEPT
                    !.version = v, !.prevHash = ph, !.ntime = nt, !.nbits = nb],
                PureSubscription) :
        v \in {NotifyA.version, <<"0", "2">>, << >>, <<"z", "z">>},
        ph \in {NotifyA.prevHash, NotifyA.prevHash \o NotifyB.prevHash,
                <<"0", "1">>},
        nt \in {NotifyA.ntime, <<"5", "b">>},
        nb \in {NotifyA.nbits, <<"1", "d">>}}

\* subscription.setDifficulty on positive difficulties (float64 values)
DifficultyInputs == {Rat(n, d) : n \in 1..MaxDifficulty, d \in {1, 2}}

\* the transaction hashes of a block template, in hex
TxHashes ==
    {<<"0", "1", "0", "2">>, <<"a", "b", "c", "d">>, <<"f", "f", "0", "0">>}

\* computeMerkleRoot on the lists of 1..MaxTxs transaction hashes
MerkleInputs == UNION {[1..n -> TxHashes] : n \in 1..MaxTxs}

\* the input is chosen, the function has not been applied
PureInput(f, in) == [f |-> f, in |-> in, out |-> << >>]

InitPure ==
    /\ minersCount = 1
    /\ connection = FALSE
    /\ messageID = 0
    /\ requests = NoRequests
    /\ latestJobParams = ZeroJobParams
    /\ call = {}
    /\ wire = << >>
    /\ servePc = "dial"
    /\ reader = [pc |-> "off", jp |-> ZeroJobParams, by |-> ""]
    /\ subscription = PureSubscription
    /\ jobs = << >>
    /\ cycles = << >>
    /\ crashed = FALSE
    /\ hashed = {}
    /\ twice = {}
    /\ dispatched = NoRequests
    /\ dropped = FALSE
    /\ authorized = "none"
    /\ neither = NoNeither
    /\ \/ \E in \in ReachTargetInputs : pure = PureInput("reachTarget", in)
       \/ \E in \in RestoreInputs :
             pure = PureInput("restorePrevHashByteOrder", in)
       \/ \E in \in HeaderInputs : pure = PureInput("newJob", in)
       \/ \E in \in DifficultyInputs : pure = PureInput("setDifficulty", in)
       \/ \E in \in MerkleInputs : pure = PureInput("computeMerkleRoot", in)

PureUnchanged ==
    UNCHANGED << minersCount, connection, messageID, requests, latestJobParams,
                 call, wire, servePc, reader, subscription, jobs, cycles,
                 crashed, hashed, twice, dispatched, dropped, authorized,
                 neither >>

\* j.reachTarget(blockHash) with j.target
PureReachTarget ==
    /\ pure.f = "reachTarget"
    /\ pure.out = << >>
    /\ pure' = [pure EXCEPT !.out = << reachTarget(pure.in[1], pure.in[2]) >>]
    /\ PureUnchanged

\* restorePrevHashByteOrder on the input, then on its own result
PureRestore ==
    /\ pure.f = "restorePrevHashByteOrder"
    /\ Len(pure.out) < 2
    /\ pure' = [pure EXCEPT !.out =
                   Append(pure.out,
                          restorePrevHashByteOrder(
                              IF pure.out = << >> THEN pure.in
                              ELSE pure.out[1]))]
    /\ PureUnchanged

\* newJob(p), and for a job it returns the header the miner hashes at
\* extraNonce2 0 and a nonce
PureHeader ==
    /\ pure.f = "newJob"
    /\ pure.out = << >>
    /\ \E nonce \in {0, NonceMod - 1} :
         LET j == newJob(pure.in)
         IN pure' = [pure EXCEPT !.out =
                        IF j \in {NilJob, PanicJob} THEN << j >>
                        ELSE << j, Header(j, 0, nonce) >>]
    /\ PureUnchanged

\* s.setDifficulty(difficulty): the target it stores
PureSetDifficulty ==
    /\ pure.f = "setDifficulty"
    /\ pure.out = << >>
    /\ pure' = [pure EXCEPT !.out = << setDifficulty(pure.in).target >>]
    /\ PureUnchanged

\* computeMerkleRoot(txsHashesHex)
PureMerkleRoot ==
    /\ pure.f = "computeMerkleRoot"
    /\ pure.out = << >>
    /\ pure' = [pure EXCEPT !.out = << computeMerkleRoot(pure.in) >>]
    /\ PureUnchanged

NextPure ==
    \/ PureMerkleRoot
    \/ PureReachTarget
    \/ PureRestore
    \/ PureHeader
    \/ PureSetDifficulty

SpecPure == InitPure /\ [][NextPure]_vars

\* ------------------------------------------------------------- properties
\* the goroutine of the loops of miner k of cycle c exists: after
\* minersWg.Add(1), before minersWg.Done()
Running(c, k) ==
    Miner(c, k).pc \in {"check", "stopped", "hash", "found", "send", "store"}

\* miner k of cycle c sweeps or is still to be started
Sweeping(c, k) == Miner(c, k).pc \in {"start", "check", "hash"}

\* << cycle, miner >> of every miner started for job j
MinersOf(j) ==
    UNION {{<< c, k >> : k \in Miners(c)} :
              c \in {c \in 1..Len(cycles) : cycles[c].job = j}}

\* the jobs whose stop() has returned: all but the subscription's job
StoppedJobs == {j \in 1..Len(jobs) : j # subscription.job}

RECURSIVE BytesToInt(_)
\* the number a byte string is, big-endian
BytesToInt(bytes) ==
    IF Len(bytes) = 0 THEN 0
    ELSE BytesToInt(SubSeq(bytes, 1, Len(bytes) - 1)) * 256 + bytes[Len(bytes)]

\* the number a little-endian uint32 in hex is
HexLeToInt(s) == BytesToInt(reverseBytesCopy(HexDecode(s)))

\* C1: at most one job is mining at any time: no miner of a job is running
\* while a miner of another job is running.
C1_OneJobMining ==
    \A j1, j2 \in 1..Len(jobs) :
        (/\ \E ck \in MinersOf(j1) : Running(ck[1], ck[2])
         /\ \E ck \in MinersOf(j2) : Running(ck[1], ck[2]))
        => j1 = j2

\* C2: once stop() of a job has returned, none of its miners is running or
\* still to run, and minersParams holds a position for each of its N miners.
C2_StopQuiesces ==
    \A j \in StoppedJobs :
        /\ \A ck \in MinersOf(j) : Miner(ck[1], ck[2]).pc = "done"
        /\ \A k \in 0..(jobs[j].minersCount - 1) :
               jobs[j].minersParams[k] # NoParams

\* C3: across stop() and a later mine(), miner k of a job hashes no
\* (extraNonce2, nonce) pair a second time.
C3_NoPairHashedTwice == twice = {}

\* C4: with N miners, miner k only ever hashes nonces n with n mod N = k.
C4_NonceClasses ==
    \A c \in 1..Len(cycles) : \A k \in Miners(c) :
        Miner(c, k).pc = "hash" => Miner(c, k).nonce % minersCount = k

\* C5: a share handed to a drain carries the id of the job whose channel it
\* came through, and the hash of that job's header at the share's
\* extraNonce2 and nonce is strictly below the job's target.
C5_SharesBelowTarget ==
    \A c \in 1..Len(cycles) :
        LET share == cycles[c].drain.share
            j == JobOf(c)
        IN share # NoShare =>
             /\ share.JobID = j.ID
             /\ BytesToInt(sha256dHash(Header(j, HexLeToInt(share.ExtraNonce2),
                                              HexLeToInt(share.Nonce))))
                  < BytesToInt(j.target)

\* a miner found a share at a hash after a hash that was not below the
\* target, and the drain holds the share
C5_Witness ==
    \E c \in 1..Len(cycles) :
        /\ cycles[c].drain.share # NoShare
        /\ BytesToInt(JobOf(c).target) < HashMod - 1
        /\ HexLeToInt(cycles[c].drain.share.Nonce) >= 2

\* the send of a miner of job j can never complete: the only receiver of
\* its channel has received; the miner never reaches minersWg.Done()
StopNeverReturns(j) ==
    \E ck \in MinersOf(j) :
        /\ Miner(ck[1], ck[2]).pc = "send"
        /\ cycles[Miner(ck[1], ck[2]).ch].drain.pc # "recv"

\* C6: after a mining.submit response with error 21 the client is in
\* newJob with the latest remembered JobParams, and that newJob can go on to
\* mine: the stop() it waits in is able to return.
C6_JobNotFoundRestarts ==
    (reader.pc = "newJob" /\ reader.by = "submit") =>
        /\ reader.jp = latestJobParams
        /\ noJob \/ ~StopNeverReturns(subscription.job)

\* C7: a job never has more than its N miners sweeping or about to sweep:
\* continueJob resumes the job with exactly N miners.
C7_ContinueWithNMiners ==
    \A j \in 1..Len(jobs) :
        Cardinality({ck \in MinersOf(j) : Sweeping(ck[1], ck[2])})
            <= jobs[j].minersCount

\* C8: a mining.notify with 9 well-typed params makes its JobParams the
\* latest; newJob is started exactly if clean_jobs is true or there is no
\* job; otherwise job, miners, checkpoints and channel stay as they are.
C8_Notify ==
    [][\A p \in NotifyJobs, cl \in BOOLEAN :
         ReadNotify(p, cl) =>
           /\ latestJobParams' = NotifyJobParams(p, minersCount)
           /\ (cl \/ noJob) =>
                /\ reader'.pc = "newJob"
                /\ reader'.jp = latestJobParams'
           /\ ~(cl \/ noJob) =>
                /\ reader' = reader
                /\ UNCHANGED << jobs, cycles, subscription >>]_vars

\* a notify without clean_jobs arrived while job "a" was mining: its
\* JobParams are the latest, job "a" is still the job
C8_Witness ==
    /\ ~noJob
    /\ jobs[subscription.job].ID = "a"
    /\ latestJobParams.jobID = "b"
    /\ reader.pc = "read"

\* a response reached a method's case at most once per id, only for an id
\* that call() allocated, and the pending entry of that id is gone
C9_DispatchedOnce ==
    \A id \in DOMAIN dispatched :
        /\ dispatched[id] <= 1
        /\ id < messageID
        /\ id \notin DOMAIN requests

\* C9: a response is handed to a method's case at most once per id, only
\* for an id that call() allocated, and its pending entry is gone then; a
\* response line that finds no pending entry changes nothing.
C9_Responses ==
    /\ []C9_DispatchedOnce
    /\ [][dropped' # dropped =>
            UNCHANGED << minersCount, connection, messageID, requests,
                         latestJobParams, call, wire, servePc, reader,
                         subscription, jobs, cycles, crashed, hashed, twice,
                         dispatched, authorized, pure, neither >>]_vars

\* a mining.submit has been answered and a response without a pending
\* entry has been read
C9_Witness ==
    /\ dropped
    /\ \E id \in DOMAIN dispatched : id >= 2 /\ dispatched[id] = 1

\* the units of mining.subscribe lines on the wire that begin a line
SubscribeLines ==
    {i \in 1..Len(wire) :
        wire[i].Method = "mining.subscribe" /\ wire[i].unit = 1}

AuthorizeRefused == authorized \in {"false", "err20", "err21"}

\* the mining.subscribe response was handled and set no subscription: it
\* carried an error or a result of another shape
SubscribeRefused ==
    /\ subscription.id = ""
    /\ \E i \in SubscribeLines : wire[i].ID \in DOMAIN dispatched

\* C12: once mining.authorize was refused or the mining.subscribe result
\* had the wrong shape, Serve has returned or is still able to return (it
\* is not in the for { time.Sleep } loop, which has no exit), and no job
\* has been built.
C12_RefusedSessionEnds ==
    (AuthorizeRefused \/ SubscribeRefused) =>
        /\ servePc # "sleep"
        /\ jobs = << >>

\* C14: in every state, setDifficulty of a negative difficulty returns the
\* error and leaves the subscription, its difficulty and target, as it is.
C14_NegativeDifficulty ==
    \A d \in Difficulties :
        d.n < 0 =>
            /\ setDifficultyError(d)
            /\ setDifficulty(d) = subscription
            /\ setDifficulty(d).target = subscription.target
            /\ setDifficulty(d).difficulty = subscription.difficulty

\* a difficulty and its target are stored, a job is mining, and the reader
\* is where the next mining.set_difficulty is read
C14_Witness ==
    /\ subscription.difficulty = Rat(1, 1)
    /\ subscription.target = TargetString(Rat(1, 1))
    /\ ~noJob
    /\ reader.pc = "read"

\* C15: every job that was built has extraNonce2Length 4, and while the
\* subscription's extraNonce2Length is not 4 (0 before the
\* mining.subscribe response) newJob leaves the subscription without job.
C15_ExtraNonce2Length ==
    /\ \A j \in 1..Len(jobs) : jobs[j].extraNonce2Length = 4
    /\ (subscription.extraNonce2Length # 4 /\ reader.pc # "newJob") => noJob
    /\ subscription.extraNonce2Length # 4 =>
          \A p \in NotifyJobs :
              newJob(FillParams(NotifyJobParams(p, minersCount), subscription))
                  = NilJob

\* a mining.notify was handled with extraNonce2Length 8, or before the
\* mining.subscribe response: newJob has run and there is no job
C15_Witness ==
    /\ subscription.extraNonce2Length # 4
    /\ latestJobParams # ZeroJobParams
    /\ reader.pc = "read"
    /\ noJob

\* subscription.newJob has returned "failed to create new job" for the
\* malformed mining.notify params: s.job is nil, the reader reads on
NewJobFailed ==
    /\ noJob
    /\ jobs # << >>
    /\ reader.pc = "read"
    /\ latestJobParams.jobID = NotifyBad.jobID

\* C16: after newJob has failed on a malformed hex field no miner of any
\* job is past its stop check, and the session stays alive: the process
\* has not panicked and the reader goes on reading frames.
C16_MalformedHexDropsJob ==
    NewJobFailed =>
        /\ ~crashed
        /\ \A c \in 1..Len(cycles) : \A k \in Miners(c) :
               Miner(c, k).pc \notin {"hash", "found", "send", "store"}

\* C17: reachTarget(h) with a target t of h's length is true exactly when
\* h, read as a big-endian number, is less than t read the same way; it is
\* false when h equals t.
C17_ReachTargetIsLess ==
    (pure.f = "reachTarget" /\ pure.out # << >>) =>
        LET h == pure.in[1]
            t == pure.in[2]
        IN /\ pure.out[1] \in {"true", "false"}
           /\ pure.out[1] = "true" <=> BytesToInt(h) < BytesToInt(t)
           /\ h = t => pure.out[1] = "false"

\* reachTarget has answered false for a hash equal to the target, whose
\* bytes are not all the same
C17_Witness ==
    /\ pure.f = "reachTarget"
    /\ pure.out = << "false" >>
    /\ pure.in[1] = pure.in[2]
    /\ \E i \in 1..HashLen : pure.in[1][i] # pure.in[1][1]

\* the 4-byte word w (from 0) of a byte string
WordOf(bytes, w) == SubSeq(bytes, 4 * w + 1, 4 * w + 4)

\* C19: restorePrevHashByteOrder(x) is x with the order of its 4-byte words
\* reversed and every word's bytes kept in order, and applied to its own
\* result it gives x back.
C19_RestoreTwice ==
    pure.f = "restorePrevHashByteOrder" =>
        LET x == pure.in
            nw == Len(x) \div 4
        IN /\ Len(pure.out) >= 1 =>
                /\ Len(pure.out[1]) = Len(x)
                /\ \A w \in 0..(nw - 1) :
                       WordOf(pure.out[1], w) = WordOf(x, nw - 1 - w)
           /\ Len(pure.out) = 2 => pure.out[2] = x

\* restorePrevHashByteOrder was applied twice to RestoreWords words, and
\* its first result was not the input
C19_Witness ==
    /\ pure.f = "restorePrevHashByteOrder"
    /\ Len(pure.in) = 4 * RestoreWords
    /\ Len(pure.out) = 2
    /\ pure.out[1] # pure.in

\* the length of the header of a job built from well-formed params: the
\* 80 bytes, with the prevHash and the merkle root at the model's lengths
HeaderLen == 4 + Len(NotifyA.prevHash) \div 2 + HashLen + 4 + 4 + 4

\* C18: for every job newJob returns, whatever the hex strings of version,
\* prevHash, ntime and nbits, the header a miner hashes has the full
\* header length.
C18_HeaderLength ==
    (pure.f = "newJob" /\ Len(pure.out) = 2) => Len(pure.out[2]) = HeaderLen

\* the ids of the pending mining.submit requests
SubmitIds == {id \in DOMAIN requests : requests[id].Method = "mining.submit"}

\* the shares built so far: those the drains hold and those of the pending
\* mining.submit requests
SharesBuilt ==
    {cycles[c].drain.share : c \in {c \in 1..Len(cycles) :
                                      cycles[c].drain.share # NoShare}}
    \cup {requests[id].Params : id \in SubmitIds}

\* the params of the mining.notify with the job id
NotifyOf(jobID) == CHOOSE p \in NotifyJobs : p.jobID = jobID

\* C20: the Ntime of every share is, byte for byte, the ntime of the
\* mining.notify its job was built from, and a job's ntime stays the
\* notify's ntime reversed, whatever shares are built.
C20_ShareNtime ==
    /\ \A share \in SharesBuilt :
          /\ share.Ntime = NotifyOf(share.JobID).ntime
          /\ HexDecode(share.Ntime) = HexDecode(NotifyOf(share.JobID).ntime)
    /\ \A j \in 1..Len(jobs) :
          jobs[j].ntime = reverseBytesCopy(HexDecode(NotifyOf(jobs[j].ID).ntime))

\* a share was built and submitted for a job whose stored ntime differs
\* from the ntime of the share
C20_Witness ==
    \E id \in SubmitIds :
        \E j \in 1..Len(jobs) :
            /\ jobs[j].ID = requests[id].Params.JobID
            /\ HexEncode(jobs[j].ntime) # requests[id].Params.Ntime

\* floor((0xffff0000 * 2^192 + 1) / difficulty - 0.5) in exact rational
\* arithmetic, at the model's widths (difficulty > 0)
ExactTarget(difficulty) ==
    LET diff1 == Diff1Mantissa * 2 ^ TargetExp + 1
    IN (2 * diff1 * difficulty.d - difficulty.n) \div (2 * difficulty.n)

\* C21: for a difficulty above 0 the target setDifficulty stores is the
\* zero-padded big-endian hex of floor((0xffff0000 * 2^192 + 1) / diff - 0.5)
\* computed without rounding.
C21_TargetExact ==
    (pure.f = "setDifficulty" /\ pure.out # << >>) =>
        pure.out[1] = SprintfHex(ExactTarget(pure.in), 2 * HashLen)

\* one level of a merkle tree: the hashes of the adjacent pairs in order,
\* the last hash paired with itself when the level has an odd length
MerkleLevel(hs) ==
    [i \in 1..((Len(hs) + 1) \div 2) |->
        sha256dHash(hs[2 * i - 1] \o
                    hs[IF 2 * i <= Len(hs) THEN 2 * i ELSE 2 * i - 1])]

RECURSIVE MerkleTop(_)
\* the levels reduced until one hash is left
MerkleTop(hs) == IF Len(hs) = 1 THEN hs[1] ELSE MerkleTop(MerkleLevel(hs))

\* C22: computeMerkleRoot of one hash is that hash (its hex decoded and
\* byte-reversed); of more hashes it is what is left when every level is
\* reduced by hashing adjacent pairs in order, the last hash of an odd
\* level paired with a copy of itself.
C22_MerkleRoot ==
    (pure.f = "computeMerkleRoot" /\ pure.out # << >>) =>
        LET hs == [i \in 1..Len(pure.in) |->
                     reverseBytesCopy(HexDecode(pure.in[i]))]
        IN /\ pure.out[1] = MerkleTop(hs)
           /\ Len(pure.in) = 1 => pure.out[1] = hs[1]

\* computeMerkleRoot has run on MaxTxs hashes that are not all the same
C22_Witness ==
    /\ pure.f = "computeMerkleRoot"
    /\ pure.out # << >>
    /\ Len(pure.in) = MaxTxs
    /\ \E i \in 1..Len(pure.in) : pure.in[i] # pure.in[1]

\* C23: a stop() that newJob is waiting in is always able to return: no
\* miner of the job being stopped is blocked in a send that no drain will
\* ever receive.
C23_StopReturns ==
    (reader.pc = "newJob" /\ ~noJob) => ~StopNeverReturns(subscription.job)

\* the checkpoint a miner that found a share at (extraNonce2, nonce) is to
\* store: the position after the found nonce
AfterFound(extraNonce2, nonce, nonceStride) ==
    [extraNonce2 |-> IF NextNonce(nonce, nonceStride) < nonce
                     THEN NextExtraNonce2(extraNonce2) ELSE extraNonce2,
     nonce |-> NextNonce(nonce, nonceStride)]

\* C24: whenever the share of a miner has been received from the shares
\* channel, the miner's checkpoint already is the position after the
\* found nonce.
C24_CheckpointBeforeShare ==
    \A c \in 1..Len(cycles) : \A k \in Miners(c) :
        Miner(c, k).pc = "store" =>
            JobOf(c).minersParams[k] =
                AfterFound(Miner(c, k).extraNonce2, Miner(c, k).nonce,
                           JobOf(c).minersCount)

\* the checkpoint worker k of nonceStride workers is to store after a share
\* at (extraNonce2, nonce): nonce + nonceStride, or on overflow the start
\* k of the next extraNonce2
CheckpointAfterShare(k, extraNonce2, nonce, nonceStride) ==
    IF nonce + nonceStride <= NonceMod - 1
    THEN [extraNonce2 |-> extraNonce2, nonce |-> nonce + nonceStride]
    ELSE [extraNonce2 |-> NextExtraNonce2(extraNonce2), nonce |-> k]

\* C25: the checkpoint worker k of N stores after its share at
\* (e2, nonce) is (e2, nonce + N) if nonce + N does not overflow and
\* (e2 + 1, k) if it does, for every N.
C25_CheckpointAfterShare ==
    [][\A c \in 1..Len(cycles) : \A k \in Miners(c) :
          (Miner(c, k).pc = "store" /\ cycles'[c].miners[k].pc = "done") =>
              jobs'[cycles[c].job].minersParams[k] =
                  CheckpointAfterShare(k, Miner(c, k).extraNonce2,
                                       Miner(c, k).nonce,
                                       JobOf(c).minersCount)]_vars

\* C26: when the hash of worker k at (e2, nonce) misses the target and
\* nonce + N is beyond the largest nonce, the worker goes on at (e2 + 1, k).
C26_InnerLoopOverflow ==
    [][\A c \in 1..Len(cycles) : \A k \in Miners(c) :
          (/\ Miner(c, k).pc = "hash"
           /\ cycles'[c].miners[k].pc = "check"
           /\ Miner(c, k).nonce + JobOf(c).minersCount > NonceMod - 1) =>
              /\ cycles'[c].miners[k].extraNonce2 =
                     NextExtraNonce2(Miner(c, k).extraNonce2)
              /\ cycles'[c].miners[k].nonce = k]_vars

\* miner k of cycle c has found a share and stored stopMining = true
FoundShare(c, k) ==
    \/ Miner(c, k).pc \in {"found", "send", "store"}
    \/ Miner(c, k).pc = "done" /\ Miner(c, k).ch # 0

\* C27: once a miner of a cycle has found a share and set the stop flag,
\* no other miner of that cycle passes its stop check to hash again: each
\* completes at most the hash it was in.
C27_PeersStopAfterFind ==
    [][\A c \in 1..Len(cycles) : \A k \in Miners(c) :
          (Miner(c, k).pc = "check" /\ cycles'[c].miners[k].pc = "hash") =>
              ~\E k2 \in Miners(c) \ {k} : FoundShare(c, k2)]_vars

\* the cycles of job j in which the goroutine of miner k is running
RunningInstances(j, k) ==
    {c \in 1..Len(cycles) :
        cycles[c].job = j /\ k \in Miners(c) /\ Running(c, k)}

\* C28: a job has at most one running miner per miner id, so that each
\* key of minersParams is written by one goroutine only.
C28_OneWriterPerKey ==
    \A j \in 1..Len(jobs) : \A k \in 0..(jobs[j].minersCount - 1) :
        Cardinality(RunningInstances(j, k)) <= 1

\* C29: whenever the response to a mining.submit makes the client call
\* continueJob (the request is removed, the reader stays in its loop, and
\* mine() starts a cycle or the call panics), the subscription has a job.
C29_ContinueHasJob ==
    [][(/\ \E id \in SubmitIds : id \notin DOMAIN requests'
        /\ reader'.pc = "read"
        /\ crashed' # crashed \/ cycles' # cycles) => ~noJob]_vars

\* C30: noJob() is true exactly as long as no job has been created: once
\* newJob has built a job, noJob() is false in every later state.
C30_NoJobIffNoneCreated == noJob <=> jobs = << >>

\* the methods of the subscription that run between s.mutex.Lock() and
\* the deferred s.mutex.Unlock()
TakesMutex(method) == method \in {"set", "newJob", "stopJob"}

\* C31: every step in which a method of the subscription reads or writes
\* its fields is a step of a method that holds the subscription's mutex:
\* set (the id changes), setDifficulty (difficulty or target change),
\* newJob (it returns), continueJob (a submit response resumes the job or
\* panics) and noJob (a notify is handled without newJob).
C31_FieldsUnderMutex ==
    [][/\ subscription'.id # subscription.id => TakesMutex("set")
       /\ (\/ subscription'.difficulty # subscription.difficulty
           \/ subscription'.target # subscription.target)
             => TakesMutex("setDifficulty")
       /\ (reader.pc = "newJob" /\ reader'.pc = "read")
             => TakesMutex("newJob")
       /\ (/\ \E id \in SubmitIds : id \notin DOMAIN requests'
           /\ reader'.pc = "read"
           /\ crashed' # crashed \/ cycles' # cycles)
             => TakesMutex("continueJob")
       /\ (/\ latestJobParams' # latestJobParams
           /\ reader.pc = "read"
           /\ reader'.pc = "read")
             => TakesMutex("noJob")]_vars

\* C33: a line that is neither request nor response is logged and that is
\* all: the pending table, the subscription, the latest JobParams, the jobs
\* and the reader's position are as before.
C33_NeitherSkipped ==
    [][neither' # neither =>
          UNCHANGED << requests, subscription, latestJobParams, jobs,
                       reader >>]_vars

\* the ids of the lines written in full, in wire order
RECURSIVE FullLineIds(_)
FullLineIds(w) ==
    IF Len(w) = 0 THEN << >>
    ELSE LET rest == FullLineIds(SubSeq(w, 1, Len(w) - 1))
         IN IF w[Len(w)].unit = LineUnits
            THEN Append(rest, w[Len(w)].ID)
            ELSE rest

\* the ids whose line is whole on the wire
WrittenIds == {wire[i].ID : i \in {k \in 1..Len(wire) : wire[k].unit = LineUnits}}

WholeLine(w, id, who) ==
    \E i \in 1..Len(w) :
        w[i].ID = id /\ w[i].by = who /\ w[i].unit = LineUnits

\* C36: when a call() returns, either its whole line is on the wire, the
\* request is stored under the id and the next id is one more, or it
\* failed and the next id and the pending table are as before; the ids of
\* the lines written in full are 0, 1, 2, ... in wire order, without a gap.
C36_FailedCallKeepsId ==
    [][/\ \A who \in Callers :
             (WantsCall(who) /\ ~WantsCall(who)') =>
                IF WholeLine(wire', messageID, who)
                THEN /\ messageID' = messageID + 1
                     /\ DOMAIN requests' = DOMAIN requests \cup {messageID}
                     /\ requests'[messageID].ID = messageID
                ELSE UNCHANGED << messageID, requests >>
       /\ LET ids == FullLineIds(wire')
          IN \A k \in 1..Len(ids) : ids[k] = k - 1]_vars

\* a call() failed after a part of its line; a later call() of another
\* goroutine wrote its whole line under the same id and stored the request
C36_Witness ==
    \E i, j \in 1..Len(wire) :
        /\ i < j
        /\ wire[i].ID = wire[j].ID
        /\ wire[i].by # wire[j].by
        /\ wire[j].unit = LineUnits
        /\ wire[j].ID \in DOMAIN requests

\* C34: when a mining.submit response without an error has been handled
\* (the request leaves the pending table, no job is started or resumed), a
\* share drain awaits the shares channel of the current job.
C34_DrainContinues ==
    [][(/\ \E id \in SubmitIds : id \notin DOMAIN requests'
        /\ cycles' = cycles
        /\ reader' = reader
        /\ crashed' = crashed)
          => \E c \in 1..Len(cycles') :
                /\ cycles'[c].job = subscription'.job
                /\ cycles'[c].drain.pc = "recv"]_vars

\* C35: a worker that is about to hash works on a job whose decoded target
\* has the full length of a hash.
C35_TargetFullLength ==
    \A c \in 1..Len(cycles) : \A k \in Miners(c) :
        Miner(c, k).pc = "hash" => Len(JobOf(c).target) = HashLen

\* C37: a step that changes the subscription's difficulty or target
\* changes nothing else of the subscription and leaves the jobs (target,
\* stop flag, checkpoints, channel), the workers and drains, the latest
\* JobParams and the pending table as they are; no step changes the target
\* of a job that exists, and a job that is created gets the target the
\* subscription has then.
C37_SetDifficultyOnlyTarget ==
    [][/\ (\/ subscription'.difficulty # subscription.difficulty
           \/ subscription'.target # subscription.target)
             => /\ UNCHANGED << jobs, cycles, latestJobParams, requests >>
                /\ subscription' =
                     [subscription EXCEPT
                        !.difficulty = subscription'.difficulty,
                        !.target = subscription'.target]
       /\ Len(jobs') >= Len(jobs)
       /\ \A j \in 1..Len(jobs) : jobs'[j].target = jobs[j].target
       /\ Len(jobs') > Len(jobs)
             => jobs'[Len(jobs')].target = HexDecode(subscription.target)]_vars

\* a job was created under one target, set_difficulty stored another one,
\* and a later new_job created a job with that one
C37_Witness ==
    \E j1, j2 \in 1..Len(jobs) :
        /\ j1 < j2
        /\ Len(jobs[j1].target) = HashLen
        /\ jobs[j1].target # jobs[j2].target
        /\ jobs[j2].target = HexDecode(subscription.target)

\* C38: when a share drain begins its call() of mining.submit and the
\* subscription has a current job, the share carries the id of that job:
\* after new_job has put a new job in the place of another, no submit for
\* the replaced job is issued.
C38_NoSubmitForReplacedJob ==
    [][\A c \in 1..Len(cycles) :
          (/\ cycles[c].drain.pc = "call"
           /\ InCall(Drain(c)) = {}
           /\ \/ InCall(Drain(c))' # {}
              \/ cycles'[c].drain.pc = "done"
           /\ subscription.job # 0)
             => cycles[c].drain.share.JobID = jobs[subscription.job].ID]_vars

\* C13: once the reader loop has returned the error of ReadLine, Serve has
\* returned or is still able to return: it is not in the for { time.Sleep }
\* loop, which has no exit.
C13_ReadErrorEndsServe ==
    reader.pc = "returned" => servePc # "sleep"

\* C10: the ids of the lines written in full start at 0 and grow strictly
\* in wire order (no id twice), and the units of a line are next to each other on the wire, written by
\* one call().
C10_WireOrder ==
    /\ LET ids == FullLineIds(wire)
       IN /\ Len(ids) > 0 => ids[1] = 0
          /\ \A i, j \in 1..Len(ids) : i < j => ids[i] < ids[j]
    /\ \A i \in 1..Len(wire) :
         wire[i].unit > 1 =>
            /\ i > 1
            /\ wire[i - 1].unit = wire[i].unit - 1
            /\ wire[i - 1].by = wire[i].by
            /\ wire[i - 1].ID = wire[i].ID

\* two share drains want to call() while one of them is in the middle of
\* its line
C10_Witness ==
    \E c1, c2 \in 1..Len(cycles) :
        /\ c1 # c2
        /\ InCall(Drain(c1)) # {}
        /\ cycles[c2].drain.pc = "call"

====
